---- MODULE Spec2Model ----
(***************************************************************************)
(* The imagetor package: conversion between raster images and float        *)
(* tensors, bilinear Resize and alpha-blended AddOverlay, each run on a    *)
(* fixed set of numWorkers goroutines joined by a sync.WaitGroup.          *)
(*                                                                         *)
(* Tensors are functions [row -> [column -> [channel -> value]]] indexed   *)
(* from 0 like the Go slices.  A float64 channel value is kept as the      *)
(* exact rational n/d it was computed from; wherever the code truncates a  *)
(* float64 to an integer (int(...), uint16(...)) the model computes the    *)
(* IEEE-754 double (53-bit significand, round to nearest even) of the      *)
(* quotient and of the product before truncating.                          *)
(***************************************************************************)
EXTENDS Integers, Sequences, FiniteSets, TLC

\* ------------------------------------------------------------------ bounds
\* Images handed to ImageToTensor are 1..MaxImgW wide and 1..MaxImgH high.
MaxImgW == 8
MaxImgH == 2
\* Tensors handed to Resize and AddOverlay are 1..MaxDim in each dimension.
MaxDim == 4
\* Resize is asked for 0..MaxNewW columns and 0..MaxNewH rows.
MaxNewW == 4
MaxNewH == 5

\* --------------------------------------------------------- program constants
channels == 4
numWorkers == 4

Workers == 0..(numWorkers - 1)
Chan == 0..(channels - 1)

\* ------------------------------------------------------------------ float64
RECURSIVE Pow2(_)
Pow2(k) == IF k = 0 THEN 1 ELSE 2 * Pow2(k - 1)

\* A double is [top, l, e]: significand top.l[1]l[2]l[3]l[4] (1 + 4*13 = 53
\* bits, top = 1 when normalised) times 2^e; top = 0 is 0.0.
Limb == Pow2(13)

Double == [top : Nat, l : Seq(Nat), e : Int]

F64Zero == [top |-> 0, l |-> <<0, 0, 0, 0>>, e |-> 0]

\* a / b = (a' / b') * 2^e with 1 <= a' / b' < 2.
Norm[a \in Nat, b \in Nat, e \in Int] ==
    IF a < b THEN Norm[2 * a, b, e - 1]
    ELSE IF a >= 2 * b THEN Norm[a, 2 * b, e + 1]
    ELSE [a |-> a, b |-> b, e |-> e]

IncLimbs[l \in Seq(Nat)] ==
    LET c4 == IF l[4] + 1 = Limb THEN 1 ELSE 0
        c3 == IF l[3] + c4 = Limb THEN 1 ELSE 0
        c2 == IF l[2] + c3 = Limb THEN 1 ELSE 0
        c1 == IF l[1] + c2 = Limb THEN 1 ELSE 0
    IN [l |-> <<(l[1] + c2) % Limb, (l[2] + c3) % Limb,
                (l[3] + c4) % Limb, (l[4] + 1) % Limb>>,
        carry |-> c1]

\* Round to nearest, ties to even, from the guard bit and the sticky bit.
F64Round[top \in Nat, l \in Seq(Nat), e \in Int, guard \in Nat, sticky \in BOOLEAN] ==
    IF guard = 1 /\ (sticky \/ l[4] % 2 = 1)
    THEN IF top + IncLimbs[l].carry = 2
         THEN [top |-> 1, l |-> <<0, 0, 0, 0>>, e |-> e + 1]
         ELSE [top |-> top, l |-> IncLimbs[l].l, e |-> e]
    ELSE [top |-> top, l |-> l, e |-> e]

\* Long division of r / b: four limbs of 13 quotient bits each, and the
\* remainder left after them.
DivLimbs[r \in Nat, b \in Nat, l \in Seq(Nat)] ==
    IF Len(l) = 4 THEN [l |-> l, r |-> r]
    ELSE DivLimbs[(r * Limb) % b, b, Append(l, (r * Limb) \div b)]

\* The quotient 1.l with remainder r over b, rounded on the next bit (guard)
\* and on what is left below it (sticky).
DivRound[l \in Seq(Nat), r \in Nat, b \in Nat, e \in Int] ==
    IF 2 * r >= b THEN F64Round[1, l, e, 1, 2 * r - b # 0]
    ELSE F64Round[1, l, e, 0, r # 0]

\* The double of a / b for a / b normalised to [1, 2) with exponent e.
DivNorm[a \in Nat, b \in Nat, e \in Int] ==
    DivRound[DivLimbs[a - b, b, <<>>].l, DivLimbs[a - b, b, <<>>].r, b, e]

\* float64(a) / float64(b) for integers 0 <= a, 0 < b, both below 2^16.
F64Div[a \in Nat, b \in Nat] ==
    IF a = 0 THEN F64Zero
    ELSE DivNorm[Norm[a, b, 0].a, Norm[a, b, 0].b, Norm[a, b, 0].e]

\* Halve the significand until its integer part is one bit, then round.
ShiftRound[top \in Nat, l \in Seq(Nat), e \in Int, guard \in Nat, sticky \in BOOLEAN] ==
    IF top < 2 THEN F64Round[top, l, e, guard, sticky]
    ELSE ShiftRound[top \div 2,
                    <<l[1] \div 2 + (top % 2) * (Limb \div 2),
                      l[2] \div 2 + (l[1] % 2) * (Limb \div 2),
                      l[3] \div 2 + (l[2] % 2) * (Limb \div 2),
                      l[4] \div 2 + (l[3] % 2) * (Limb \div 2)>>,
                    e + 1, l[4] % 2, sticky \/ guard = 1]

\* f * float64(n) for a double f and an integer 0 <= n < 2^16.
F64MulInt[f \in Double, n \in Nat] ==
    IF f.top = 0 \/ n = 0 THEN F64Zero
    ELSE LET t4 == f.l[4] * n
             t3 == f.l[3] * n + t4 \div Limb
             t2 == f.l[2] * n + t3 \div Limb
             t1 == f.l[1] * n + t2 \div Limb
         IN ShiftRound[f.top * n + t1 \div Limb,
                       <<t1 % Limb, t2 % Limb, t3 % Limb, t4 % Limb>>,
                       f.e, 0, FALSE]

\* int(f) / uint16(f): truncation toward zero of a double 0 <= f < 2^26.
F64Trunc[f \in Double] ==
    IF f.top = 0 \/ f.e < 0 THEN 0
    ELSE IF f.e <= 13 THEN f.top * Pow2(f.e) + f.l[1] \div Pow2(13 - f.e)
    ELSE f.top * Pow2(f.e) + f.l[1] * Pow2(f.e - 13) + f.l[2] \div Pow2(26 - f.e)

\* ------------------------------------------- float64 products, sums, differences
\* A natural number as its 13-bit limbs, least significant first, with no
\* zero limb at the top; 0 is << >>.  The exact product or sum of two doubles
\* is such a number times a power of two, which BigRound rounds to a double.
BigTrim[a \in Seq(Nat)] ==
    IF a = << >> \/ a[Len(a)] # 0 THEN a ELSE BigTrim[SubSeq(a, 1, Len(a) - 1)]

BigAdd[a \in Seq(Nat), b \in Seq(Nat), c \in Nat] ==
    IF a = << >> /\ b = << >> THEN (IF c = 0 THEN << >> ELSE <<c>>)
    ELSE IF a = << >> THEN BigAdd[<<0>>, b, c]
    ELSE IF b = << >> THEN BigAdd[a, <<0>>, c]
    ELSE <<(a[1] + b[1] + c) % Limb>>
             \o BigAdd[Tail(a), Tail(b), (a[1] + b[1] + c) \div Limb]

\* a - b - c for a >= b + c, before trimming.
BigSubLimbs[a \in Seq(Nat), b \in Seq(Nat), c \in Nat] ==
    IF a = << >> THEN << >>
    ELSE IF b = << >> THEN BigSubLimbs[a, <<0>>, c]
    ELSE <<(a[1] + Limb - b[1] - c) % Limb>>
             \o BigSubLimbs[Tail(a), Tail(b), IF a[1] < b[1] + c THEN 1 ELSE 0]

BigSub[a \in Seq(Nat), b \in Seq(Nat)] == BigTrim[BigSubLimbs[a, b, 0]]

\* a * n + c for a single limb n.
BigMulSmall[a \in Seq(Nat), n \in Nat, c \in Nat] ==
    IF a = << >> THEN (IF c = 0 THEN << >> ELSE <<c>>)
    ELSE <<(a[1] * n + c) % Limb>> \o BigMulSmall[Tail(a), n, (a[1] * n + c) \div Limb]

BigMul[a \in Seq(Nat), b \in Seq(Nat)] ==
    IF a = << >> \/ b = << >> THEN << >>
    ELSE BigAdd[BigMulSmall[a, b[1], 0], BigTrim[<<0>> \o BigMul[a, Tail(b)]], 0]

\* a < b
BigLess[a \in Seq(Nat), b \in Seq(Nat)] ==
    IF Len(a) # Len(b) THEN Len(a) < Len(b)
    ELSE IF a = << >> THEN FALSE
    ELSE IF a[Len(a)] # b[Len(b)] THEN a[Len(a)] < b[Len(b)]
    ELSE BigLess[BigTrim[SubSeq(a, 1, Len(a) - 1)], BigTrim[SubSeq(b, 1, Len(b) - 1)]]

\* a * 2^k
BigShl[a \in Seq(Nat), k \in Nat] ==
    IF a = << >> THEN << >>
    ELSE IF k >= 13 THEN <<0>> \o BigShl[a, k - 13]
    ELSE BigTrim[BigMulSmall[a, Pow2(k), 0]]

\* a \div 2^k
BigShr[a \in Seq(Nat), k \in Nat] ==
    IF a = << >> THEN << >>
    ELSE IF k >= 13 THEN BigShr[Tail(a), k - 13]
    ELSE BigTrim[[i \in 1..Len(a) |->
                     a[i] \div Pow2(k)
                     + (IF i < Len(a) THEN a[i + 1] % Pow2(k) ELSE 0) * Pow2(13 - k)]]

\* The number of bits of n, and of a.
BitLen[n \in Nat] == IF n = 0 THEN 0 ELSE 1 + BitLen[n \div 2]
BigBits[a \in Seq(Nat)] ==
    IF a = << >> THEN 0 ELSE 13 * (Len(a) - 1) + BitLen[a[Len(a)]]

\* The 53-bit number q (2^52 <= q < 2^53) as the significand of a double.
BigDouble[q \in Seq(Nat), e \in Int] ==
    [top |-> q[5], l |-> <<q[4], q[3], q[2], q[1]>>, e |-> e]

\* The significand of a double as a 53-bit number.
Mant[f \in Double] == <<f.l[4], f.l[3], f.l[2], f.l[1], f.top>>

\* The 53-bit quotient q of m by 2^k with remainder r, rounded to nearest even.
BigRoundBits[q \in Seq(Nat), r \in Seq(Nat), half \in Seq(Nat), e \in Int] ==
    F64Round[q[5], <<q[4], q[3], q[2], q[1]>>, e,
             IF BigLess[r, half] THEN 0 ELSE 1, r # << >> /\ r # half]

\* The double nearest to m * 2^x, ties to even, for m > 0.
BigRound[m \in Seq(Nat), x \in Int] ==
    IF BigBits[m] <= 53
    THEN BigDouble[BigShl[m, 53 - BigBits[m]], x + BigBits[m] - 1]
    ELSE BigRoundBits[BigShr[m, BigBits[m] - 53],
                      BigSub[m, BigShl[BigShr[m, BigBits[m] - 53], BigBits[m] - 53]],
                      BigShl[<<1>>, BigBits[m] - 54],
                      x + BigBits[m] - 1]

\* f * g for doubles f, g >= 0.
F64Mul[f \in Double, g \in Double] ==
    IF f.top = 0 \/ g.top = 0 THEN F64Zero
    ELSE BigRound[BigMul[Mant[f], Mant[g]], f.e + g.e - 104]

\* f < g for doubles f, g >= 0.
F64Less[f \in Double, g \in Double] ==
    IF g.top = 0 THEN FALSE
    ELSE IF f.top = 0 THEN TRUE
    ELSE IF f.e # g.e THEN f.e < g.e
    ELSE BigLess[Mant[f], Mant[g]]

\* f + g for doubles f, g >= 0.
F64Add[f \in Double, g \in Double] ==
    IF f.top = 0 THEN g
    ELSE IF g.top = 0 THEN f
    ELSE IF f.e >= g.e
    THEN BigRound[BigAdd[BigShl[Mant[f], f.e - g.e], Mant[g], 0], g.e - 52]
    ELSE BigRound[BigAdd[BigShl[Mant[g], g.e - f.e], Mant[f], 0], f.e - 52]

\* f - g for doubles f >= g >= 0.
F64Sub[f \in Double, g \in Double] ==
    IF g.top = 0 THEN f
    ELSE IF f = g THEN F64Zero
    ELSE BigRound[BigSub[BigShl[Mant[f], f.e - g.e], Mant[g]], g.e - 52]

\* A signed number m * 2^x, with m as limbs: the exact value of a double, or
\* of a product or sum of doubles before it is rounded.
Dyadic == [neg : BOOLEAN, m : Seq(Nat), x : Int]

DyZero == [neg |-> FALSE, m |-> << >>, x |-> 0]

\* The double f >= 0, negated when neg.
DyOf[f \in Double, neg \in BOOLEAN] ==
    IF f.top = 0 THEN DyZero ELSE [neg |-> neg, m |-> Mant[f], x |-> f.e - 52]

DyNeg[a \in Dyadic] == IF a.m = << >> THEN a ELSE [a EXCEPT !.neg = ~a.neg]

\* The exact product.
DyMul[a \in Dyadic, b \in Dyadic] ==
    IF a.m = << >> \/ b.m = << >> THEN DyZero
    ELSE [neg |-> a.neg # b.neg, m |-> BigMul[a.m, b.m], x |-> a.x + b.x]

\* The exact sum of two numbers with the same exponent x.
DySum[na \in BOOLEAN, ma \in Seq(Nat), nb \in BOOLEAN, mb \in Seq(Nat), x \in Int] ==
    IF na = nb THEN [neg |-> na, m |-> BigAdd[ma, mb, 0], x |-> x]
    ELSE IF ma = mb THEN DyZero
    ELSE IF BigLess[ma, mb] THEN [neg |-> nb, m |-> BigSub[mb, ma], x |-> x]
    ELSE [neg |-> na, m |-> BigSub[ma, mb], x |-> x]

\* The exact sum.
DyAdd[a \in Dyadic, b \in Dyadic] ==
    IF a.m = << >> THEN b
    ELSE IF b.m = << >> THEN a
    ELSE IF a.x <= b.x THEN DySum[a.neg, a.m, b.neg, BigShl[b.m, b.x - a.x], a.x]
    ELSE DySum[a.neg, BigShl[a.m, a.x - b.x], b.neg, b.m, b.x]

\* The magnitude, rounded to a double.
DyAbs[a \in Dyadic] == IF a.m = << >> THEN F64Zero ELSE BigRound[a.m, a.x]

\* The number rounded to a double, as the exact value of that double.
DyRound[a \in Dyadic] == DyOf[DyAbs[a], a.neg]

\* f * g + h rounded once (a fused multiply-add), for doubles f, g, h >= 0.
F64Fma[f \in Double, g \in Double, h \in Double] ==
    DyAbs[DyAdd[DyMul[DyOf[f, FALSE], DyOf[g, FALSE]], DyOf[h, FALSE]]]

\* ------------------------------------------------- channel values (rationals)
GCD[a \in Nat, b \in Nat] == IF b = 0 THEN a ELSE GCD[b, a % b]

\* A channel value n/d in lowest terms.
Rational == [n : Int, d : Nat]

Rat[n \in Int, d \in Nat] ==
    [n |-> n \div GCD[IF n < 0 THEN -n ELSE n, d],
     d |-> d \div GCD[IF n < 0 THEN -n ELSE n, d]]

RZero == [n |-> 0, d |-> 1]
ROne == [n |-> 1, d |-> 1]
RAdd[p \in Rational, q \in Rational] == Rat[p.n * q.d + q.n * p.d, p.d * q.d]
RSub[p \in Rational, q \in Rational] == Rat[p.n * q.d - q.n * p.d, p.d * q.d]
RMul[p \in Rational, q \in Rational] == Rat[p.n * q.n, p.d * q.d]

\* ------------------------------------------------------------------ tensors
\* make([]float64, channels): a pixel of zeros.
ZeroPixel == [c \in Chan |-> RZero]

\* make([][][]float64, height) with every row and pixel allocated.
ZeroTensor(w, h) == [y \in 0..(h - 1) |-> [x \in 0..(w - 1) |-> ZeroPixel]]

\* len(tensor) and len(tensor[0]).
Height(t) == Cardinality(DOMAIN t)
Width(t) == Cardinality(DOMAIN t[0])

Colour(r, g, b, a) == [c \in Chan |-> <<r, g, b, a>>[c + 1]]
Red == Colour(ROne, RZero, RZero, ROne)
Blue == Colour(RZero, RZero, ROne, ROne)
White == Colour(ROne, ROne, ROne, ROne)

\* The tensors the caller passes in: uniform ones, one whose pixels all
\* differ and are half transparent, and a half transparent one whose colours
\* are not multiplied by alpha.
PatPixel(pat, x, y) ==
    CASE pat = "red" -> Red
      [] pat = "blue" -> Blue
      [] pat = "white" -> White
      [] pat = "grad" -> Colour(Rat[x + 1, 8], Rat[y + 1, 8], Rat[1, 4], Rat[1, 2])
      [] pat = "veil" -> Colour(ROne, ROne, ROne, Rat[1, 2])

MkTensor(w, h, pat) == [y \in 0..(h - 1) |-> [x \in 0..(w - 1) |-> PatPixel(pat, x, y)]]

EmptyTensor == ZeroTensor(0, 0)

\* ------------------------------------------------------------------- images
\* A decoded image: At(x, y).RGBA() gives px[y][x], four 16-bit values.
ImgPixel(pat, x, y) ==
    [c \in Chan |->
        CASE pat = "full" -> 65535
          [] pat = "byte" -> 257 * ((17 * x + 5 * y + c + 1) % 256)
          [] pat = "deep" -> (4099 * (x + 1) + 513 * y + c) % 65536]

MkImage(w, h, pat) ==
    [w |-> w, h |-> h,
     px |-> [y \in 0..(h - 1) |-> [x \in 0..(w - 1) |-> ImgPixel(pat, x, y)]]]

Images == {MkImage(w, h, pat) : w \in 1..MaxImgW, h \in 1..MaxImgH,
                                pat \in {"full", "byte", "deep"}}

\* image.NewRGBA(image.Rect(0, 0, width, height)): 8 bits a channel, all 0.
NewRGBA(w, h) ==
    [w |-> w, h |-> h,
     px |-> [y \in 0..(h - 1) |-> [x \in 0..(w - 1) |-> [c \in Chan |-> 0]]]]

NoImage == NewRGBA(0, 0)

\* ---------------------------------------------------------------- partition
\* tileWidth := width / numWorkers (and tileHeight alike).
TileSize(n) == n \div numWorkers

\* RangeEnd with each range one index too long.
RangeEndOverlap(i, tile) == (i + 1) * tile + 1

\* The arguments of go func(start, end int): i*tile and (i+1)*tile.
RangeStart(i, tile) == i * tile
RangeEnd(i, tile) == (i + 1) * tile

\* -------------------------------------------------------------- conversions
\* float64(v) / 65535.0 for each of the four values of At(x, y).RGBA().
Normalize(px16) == [c \in Chan |-> Rat[px16[c], 65535]]

\* uint16(value * 65535.0) for a tensor value in [0, 1].
ToUint16(v) == F64Trunc[F64MulInt[F64Div[v.n, v.d], 65535]]

\* (*image.RGBA).Set with a color.RGBA64: the RGBA model keeps the high byte.
SetRGBA(px) == [c \in Chan |-> ToUint16(px[c]) \div 256]

\* (*image.RGBA).At(x, y).RGBA(): each stored byte b read back as b<<8 | b.
At16(im, x, y) == [c \in Chan |-> 257 * im.px[y][x][c]]

\* -------------------------------------------------------------------- state
VARIABLES
    running,    \* the function whose goroutines are live, or "none"
    op,         \* the exported function the caller called last
    ret,        \* what that call returned: none (not yet), tensor, image,
                \* void, error, panic
    img,        \* ImageToTensor's argument
    tensor,     \* the caller's tensor: ImageToTensor's result, *tensor of Resize
    tensor0,    \* the tensor as it was when Resize was called
    target,     \* AddOverlay's target
    overlay,    \* the caller's overlay, *overlay of AddOverlay
    overlay0,   \* the overlay as it was when AddOverlay was called
    newTensor,  \* the tensor under construction (tensor / newTensor in the code)
    outImg,     \* TensorToImage's img
    width,      \* width and height captured by the goroutines
    height,
    ov,         \* AddOverlay's factor, newOverlayWidth/Height, offsetX/Y
    wk,         \* per goroutine: its start and end arguments, its outer loop
                \* variable y, and whether it has run wg.Done()
    writers,    \* <<i, y, x>>: goroutine i has written cell (y, x)
    calls,      \* how many times in a row the caller has called op on tensor
    prev,       \* the tensor as it was before the latest of those calls
    angle,      \* Rotate's angle, in degrees
    build,      \* how the compiled program rounds x*y + z: as two operations,
                \* or fused into one (the Go specification allows both)
    libm        \* which implementation of math.Cos the program runs

vars == <<running, op, ret, img, tensor, tensor0, target, overlay, overlay0,
          newTensor, outImg, width, height, ov, wk, writers, calls, prev, angle,
          build, libm>>

NoOv == [num |-> 1, den |-> 1, newOverlayWidth |-> 0, newOverlayHeight |-> 0,
         offsetX |-> 0, offsetY |-> 0]

Idle == [i \in Workers |-> [start |-> 0, end |-> 0, y |-> 0, done |-> TRUE]]

Init ==
    /\ running = "none"
    /\ op = "none"
    /\ ret = "none"
    /\ img = NoImage
    /\ tensor = EmptyTensor
    /\ tensor0 = EmptyTensor
    /\ target = EmptyTensor
    /\ overlay = EmptyTensor
    /\ overlay0 = EmptyTensor
    /\ newTensor = EmptyTensor
    /\ outImg = NoImage
    /\ width = 0
    /\ height = 0
    /\ ov = NoOv
    /\ wk = Idle
    /\ writers = {}
    /\ calls = 0
    /\ prev = EmptyTensor
    /\ angle = 0
    /\ build = "separate"
    /\ libm = "go"

\* A call on fresh inputs.  Every such call sets all of the state, so what
\* follows it does not depend on the calls made before it: a behaviour follows
\* one call from the initial state (and, after ImageToTensor, the conversion
\* of its result back by TensorToImage).
CanCall == running = "none" /\ op = "none"

\* wg.Add(numWorkers) and the go statements over column ranges: every
\* goroutine loops y over all rows.
SpawnColumns(tile) ==
    [i \in Workers |-> [start |-> RangeStart(i, tile), end |-> RangeEnd(i, tile),
                        y |-> 0, done |-> FALSE]]

\* wg.Add(numWorkers) and the go statements over row ranges starting at base:
\* every goroutine loops y from its start to its end.
SpawnRows(base, tile) ==
    [i \in Workers |-> [start |-> base + RangeStart(i, tile),
                        end |-> base + RangeEnd(i, tile),
                        y |-> base + RangeStart(i, tile), done |-> FALSE]]

\* WaitDone with the counter set one too low, as by wg.Add(numWorkers - 1).
WaitDoneShort == Cardinality({i \in Workers : wk[i].done}) >= numWorkers - 1

\* wg.Wait(): returns once every goroutine has run its deferred wg.Done().
WaitDone == \A i \in Workers : wk[i].done

\* A runtime panic (index out of range) ends the program.
Panic ==
    /\ ret' = "panic"
    /\ running' = "none"
    /\ UNCHANGED <<calls, prev, angle, build, libm, op, img, tensor, tensor0, target, overlay, overlay0,
                   newTensor, outImg, width, height, ov, wk, writers>>

\* defer wg.Done() when the goroutine's loop has ended.
WorkerDone(i) ==
    /\ wk' = [wk EXCEPT ![i].done = TRUE]
    /\ UNCHANGED <<calls, prev, angle, build, libm, running, op, ret, img, tensor, tensor0, target, overlay,
                   overlay0, newTensor, outImg, width, height, ov, writers>>

\* ------------------------------------------------------------ ImageToTensor
CallImageToTensor(im) ==
    /\ CanCall
    /\ calls' = 1
    /\ prev' = EmptyTensor
    /\ angle' = 0
    /\ build' = build
    /\ libm' = libm
    /\ op' = "ImageToTensor"
    /\ ret' = "none"
    /\ running' = "ImageToTensor"
    /\ img' = im
    /\ width' = im.w
    /\ height' = im.h
    /\ newTensor' = ZeroTensor(im.w, im.h)
    /\ wk' = SpawnColumns(TileSize(im.w))
    /\ writers' = {}
    /\ tensor' = EmptyTensor
    /\ tensor0' = EmptyTensor
    /\ target' = EmptyTensor
    /\ overlay' = EmptyTensor
    /\ overlay0' = EmptyTensor
    /\ outImg' = NoImage
    /\ ov' = NoOv

\* One iteration of the goroutine's loop over y: the cells (y, start..end-1).
ImageToTensorWorker(i) ==
    /\ running = "ImageToTensor"
    /\ ~wk[i].done
    /\ IF wk[i].y < height
       THEN LET y == wk[i].y
                cols == wk[i].start..(wk[i].end - 1)
            IN IF \A x \in cols : x < width
               THEN /\ newTensor' = [newTensor EXCEPT ![y] =
                          [x \in 0..(width - 1) |->
                              IF x \in cols THEN Normalize(img.px[y][x])
                              ELSE newTensor[y][x]]]
                    /\ writers' = writers \cup {<<i, y, x>> : x \in cols}
                    /\ wk' = [wk EXCEPT ![i].y = y + 1]
                    /\ UNCHANGED <<calls, prev, angle, build, libm, running, op, ret, img, tensor, tensor0, target,
                                   overlay, overlay0, outImg, width, height, ov>>
               ELSE Panic
       ELSE WorkerDone(i)

ImageToTensorReturn ==
    /\ running = "ImageToTensor"
    /\ WaitDone
    /\ running' = "none"
    /\ ret' = "tensor"
    /\ tensor' = newTensor
    /\ UNCHANGED <<calls, prev, angle, build, libm, op, img, tensor0, target, overlay, overlay0, newTensor,
                   outImg, width, height, ov, wk, writers>>

\* ------------------------------------------------------------ TensorToImage
\* The caller converts the tensor ImageToTensor gave it back to an image.
CallTensorToImage ==
    /\ running = "none"
    /\ op = "ImageToTensor"
    /\ ret = "tensor"
    /\ op' = "TensorToImage"
    /\ ret' = "none"
    /\ running' = "TensorToImage"
    /\ height' = Height(tensor)
    /\ width' = Width(tensor)
    /\ outImg' = NewRGBA(Width(tensor), Height(tensor))
    /\ wk' = SpawnColumns(TileSize(Width(tensor)))
    /\ writers' = {}
    /\ UNCHANGED <<calls, prev, angle, build, libm, img, tensor, tensor0, target, overlay, overlay0, newTensor, ov>>

TensorToImageWorker(i) ==
    /\ running = "TensorToImage"
    /\ ~wk[i].done
    /\ IF wk[i].y < height
       THEN LET y == wk[i].y
                cols == wk[i].start..(wk[i].end - 1)
            IN IF \A x \in cols : x < width
               THEN /\ outImg' = [outImg EXCEPT !.px[y] =
                          [x \in 0..(width - 1) |->
                              IF x \in cols THEN SetRGBA(tensor[y][x])
                              ELSE outImg.px[y][x]]]
                    /\ writers' = writers \cup {<<i, y, x>> : x \in cols}
                    /\ wk' = [wk EXCEPT ![i].y = y + 1]
                    /\ UNCHANGED <<calls, prev, angle, build, libm, running, op, ret, img, tensor, tensor0, target,
                                   overlay, overlay0, newTensor, width, height, ov>>
               ELSE Panic
       ELSE WorkerDone(i)

TensorToImageReturn ==
    /\ running = "TensorToImage"
    /\ WaitDone
    /\ running' = "none"
    /\ ret' = "image"
    /\ UNCHANGED <<calls, prev, angle, build, libm, op, img, tensor, tensor0, target, overlay, overlay0,
                   newTensor, outImg, width, height, ov, wk, writers>>

\* ------------------------------------------------------------------- Resize
\* The tensors the caller hands to Resize.
SrcTensors == {MkTensor(w, h, pat) : w \in 1..MaxDim, h \in 1..MaxDim,
                                     pat \in {"red", "grad"}}

\* int(float64(k) * float64(old) / float64(new)): x0 from x, y0 from y.
SrcIndex(k, old, new) == F64Trunc[F64Div[k * old, new]]

\* oldX - float64(x0): the fractional part of the source coordinate.
SrcFrac(k, old, new) == RSub[Rat[k * old, new], Rat[SrcIndex(k, old, new), 1]]

\* The four-term sum of the interpolation, for one channel.
Bilinear(dx, dy, p00, p01, p10, p11) ==
    RAdd[RAdd[RAdd[RMul[RMul[RSub[ROne, dx], RSub[ROne, dy]], p00],
                   RMul[RMul[dx, RSub[ROne, dy]], p01]],
              RMul[RMul[RSub[ROne, dx], dy], p10]],
         RMul[RMul[dx, dy], p11]]

\* *tensor inside Resize: the caller's tensor, or AddOverlay's overlay.
ResizeSrc == IF op = "AddOverlay" THEN overlay ELSE tensor

\* newTensor[y][x] after the body of the loop over x: the interpolation of the
\* source pixels around (x0, y0), or the pixel's present value, which
\* "continue" leaves in place, when they are out of bounds.
Interpolate[x \in Nat, y \in Nat, x0 \in Int, y0 \in Int, dx \in Rational, dy \in Rational] ==
    IF x0 < 0 \/ x0 >= Width(ResizeSrc) - 1 \/ y0 < 0 \/ y0 >= Height(ResizeSrc) - 1
    THEN newTensor[y][x]
    ELSE [c \in Chan |->
             Bilinear(dx, dy, ResizeSrc[y0][x0][c], ResizeSrc[y0][x0 + 1][c],
                      ResizeSrc[y0 + 1][x0][c], ResizeSrc[y0 + 1][x0 + 1][c])]

\* The body of the loop over x for destination pixel (x, y).
ResizePixel(x, y) ==
    Interpolate[x, y,
                SrcIndex(x, Width(ResizeSrc), width),
                SrcIndex(y, Height(ResizeSrc), height),
                SrcFrac(x, Width(ResizeSrc), width),
                SrcFrac(y, Height(ResizeSrc), height)]

CallResize(t, w, h) ==
    /\ CanCall
    /\ calls' = 1
    /\ prev' = EmptyTensor
    /\ angle' = 0
    /\ build' = build
    /\ libm' = libm
    /\ op' = "Resize"
    /\ ret' = "none"
    /\ running' = "Resize"
    /\ tensor' = t
    /\ tensor0' = t
    /\ width' = w
    /\ height' = h
    /\ newTensor' = ZeroTensor(w, h)
    /\ wk' = SpawnRows(0, TileSize(h))
    /\ writers' = {}
    /\ img' = NoImage
    /\ outImg' = NoImage
    /\ target' = EmptyTensor
    /\ overlay' = EmptyTensor
    /\ overlay0' = EmptyTensor
    /\ ov' = NoOv

\* One iteration of the goroutine's loop over y: row y of newTensor.
ResizeWorker(i) ==
    /\ running = "Resize"
    /\ ~wk[i].done
    /\ IF wk[i].y < wk[i].end
       THEN LET y == wk[i].y
            IN IF y < height
               THEN /\ newTensor' = [newTensor EXCEPT ![y] =
                          [x \in 0..(width - 1) |-> ResizePixel(x, y)]]
                    /\ writers' = writers \cup {<<i, y, x>> : x \in 0..(width - 1)}
                    /\ wk' = [wk EXCEPT ![i].y = y + 1]
                    /\ UNCHANGED <<calls, prev, angle, build, libm, running, op, ret, img, tensor, tensor0, target,
                                   overlay, overlay0, outImg, width, height, ov>>
               ELSE Panic
       ELSE WorkerDone(i)

\* wg.Wait() and *tensor = newTensor, when the caller called Resize.
ResizeReturn ==
    /\ running = "Resize"
    /\ op = "Resize"
    /\ WaitDone
    /\ running' = "none"
    /\ ret' = "void"
    /\ tensor' = newTensor
    /\ UNCHANGED <<calls, prev, angle, build, libm, op, img, tensor0, target, overlay, overlay0, newTensor,
                   outImg, width, height, ov, wk, writers>>

\* --------------------------------------------------------------- AddOverlay
Targets == {MkTensor(w, h, pat) : w \in 1..MaxDim, h \in 1..MaxDim,
                                  pat \in {"white", "grad"}} \cup {EmptyTensor}

Overlays == {MkTensor(w, h, pat) : w \in 1..MaxDim, h \in 1..MaxDim,
                                   pat \in {"blue", "grad", "veil"}} \cup {EmptyTensor}

\* scaleFactor with max in place of min.
scaleFactorMax(tgt, ovl) ==
    LET baseWidth == Width(tgt)
        baseHeight == Height(tgt)
        overlayWidth == Width(ovl)
        overlayHeight == Height(ovl)
    IN IF overlayWidth > baseWidth \/ overlayHeight > baseHeight
       THEN IF baseWidth * overlayHeight >= baseHeight * overlayWidth
            THEN [num |-> baseWidth, den |-> overlayWidth]
            ELSE [num |-> baseHeight, den |-> overlayHeight]
       ELSE [num |-> 1, den |-> 1]

\* The factor as the quotient num/den whose double it is (1.0 is 1/1).  Of two
\* quotients the smaller has the smaller (or the same) double, so min compares
\* the quotients.
scaleFactor(tgt, ovl) ==
    LET baseWidth == Width(tgt)
        baseHeight == Height(tgt)
        overlayWidth == Width(ovl)
        overlayHeight == Height(ovl)
    IN IF overlayWidth > baseWidth \/ overlayHeight > baseHeight
       THEN IF baseWidth * overlayHeight <= baseHeight * overlayWidth
            THEN [num |-> baseWidth, den |-> overlayWidth]
            ELSE [num |-> baseHeight, den |-> overlayHeight]
       ELSE [num |-> 1, den |-> 1]

\* int(float64(len) * factor).
ScaledSize(len, f) == F64Trunc[F64MulInt[F64Div[f.num, f.den], len]]

\* EmptyInput without the test of the overlay.
EmptyInputTargetOnly(tgt, ovl) == Height(tgt) = 0

\* if len(target) == 0 || len(*overlay) == 0
EmptyInput(tgt, ovl) == Height(tgt) = 0 \/ Height(ovl) = 0

\* The blend of overlay pixel o onto output pixel t, alpha forced to 1.0.
BlendPixel(o, t) ==
    [c \in Chan |-> IF c < 3 THEN RAdd[o[c], RMul[RSub[ROne, o[3]], t[c]]]
                    ELSE ROne]

\* The call up to the wg.Wait() of the Resize it makes: the error return, or
\* the sizes and Resize's allocation and goroutines.  target[0] and
\* (*overlay)[0] of an empty tensor are index-out-of-range panics.
CallAddOverlay(tgt, ovl) ==
    /\ CanCall
    /\ calls' = 1
    /\ prev' = EmptyTensor
    /\ angle' = 0
    /\ build' = build
    /\ libm' = libm
    /\ op' = "AddOverlay"
    /\ target' = tgt
    /\ overlay' = ovl
    /\ overlay0' = ovl
    /\ img' = NoImage
    /\ outImg' = NoImage
    /\ tensor' = EmptyTensor
    /\ tensor0' = EmptyTensor
    /\ writers' = {}
    /\ IF EmptyInput(tgt, ovl)
       THEN /\ ret' = "error"
            /\ running' = "none"
            /\ newTensor' = EmptyTensor
            /\ width' = 0
            /\ height' = 0
            /\ ov' = NoOv
            /\ wk' = Idle
       ELSE IF Height(tgt) = 0 \/ Height(ovl) = 0
       THEN /\ ret' = "panic"
            /\ running' = "none"
            /\ newTensor' = EmptyTensor
            /\ width' = 0
            /\ height' = 0
            /\ ov' = NoOv
            /\ wk' = Idle
       ELSE LET factor == scaleFactor(tgt, ovl)
                newOverlayWidth == ScaledSize(Width(ovl), factor)
                newOverlayHeight == ScaledSize(Height(ovl), factor)
            IN /\ ret' = "none"
               /\ running' = "Resize"
               /\ ov' = [num |-> factor.num, den |-> factor.den,
                         newOverlayWidth |-> newOverlayWidth,
                         newOverlayHeight |-> newOverlayHeight,
                         offsetX |-> 0, offsetY |-> 0]
               /\ width' = newOverlayWidth
               /\ height' = newOverlayHeight
               /\ newTensor' = ZeroTensor(newOverlayWidth, newOverlayHeight)
               /\ wk' = SpawnRows(0, TileSize(newOverlayHeight))

\* AddOverlayResized with a zeroed output tensor in place of the copy of the
\* target.
AddOverlayResizedNoCopy ==
    /\ running = "Resize"
    /\ op = "AddOverlay"
    /\ WaitDone
    /\ overlay' = newTensor
    /\ ov' = [ov EXCEPT !.offsetX = (Width(target) - ov.newOverlayWidth) \div 2,
                        !.offsetY = (Height(target) - ov.newOverlayHeight) \div 2]
    /\ newTensor' = ZeroTensor(Width(target), Height(target))
    /\ width' = Width(target)
    /\ height' = Height(target)
    /\ wk' = SpawnRows((Height(target) - ov.newOverlayHeight) \div 2,
                       TileSize(ov.newOverlayHeight))
    /\ running' = "AddOverlay"
    /\ writers' = {}
    /\ UNCHANGED <<calls, prev, angle, build, libm, op, ret, img, tensor, tensor0, target, overlay0, outImg>>

\* Resize's wg.Wait() and *tensor = newTensor inside AddOverlay, then
\* AddOverlay up to its own wg.Wait(): the offsets, the copy of the target,
\* and the blending goroutines.
AddOverlayResized ==
    /\ running = "Resize"
    /\ op = "AddOverlay"
    /\ WaitDone
    /\ LET targetWidth == Width(target)
           targetHeight == Height(target)
           offsetX == (targetWidth - ov.newOverlayWidth) \div 2
           offsetY == (targetHeight - ov.newOverlayHeight) \div 2
       IN /\ overlay' = newTensor
          /\ ov' = [ov EXCEPT !.offsetX = offsetX, !.offsetY = offsetY]
          /\ newTensor' = [y \in 0..(targetHeight - 1) |->
                              [x \in 0..(targetWidth - 1) |-> target[y][x]]]
          /\ width' = targetWidth
          /\ height' = targetHeight
          /\ wk' = SpawnRows(offsetY, TileSize(ov.newOverlayHeight))
    /\ running' = "AddOverlay"
    /\ writers' = {}
    /\ UNCHANGED <<calls, prev, angle, build, libm, op, ret, img, tensor, tensor0, target, overlay0, outImg>>

\* One iteration of the blending goroutine's loop over y.
AddOverlayWorker(i) ==
    /\ running = "AddOverlay"
    /\ ~wk[i].done
    /\ IF wk[i].y < wk[i].end
       THEN LET y == wk[i].y
                cols == ov.offsetX..(ov.offsetX + ov.newOverlayWidth - 1)
            IN IF /\ y >= 0 /\ y < height
                  /\ y - ov.offsetY >= 0 /\ y - ov.offsetY < Height(overlay)
                  /\ \A x \in cols : x >= 0 /\ x < width
               THEN /\ newTensor' = [newTensor EXCEPT ![y] =
                          [x \in 0..(width - 1) |->
                              IF x \in cols
                              THEN BlendPixel(overlay[y - ov.offsetY][x - ov.offsetX],
                                              newTensor[y][x])
                              ELSE newTensor[y][x]]]
                    /\ writers' = writers \cup {<<i, y, x>> : x \in cols}
                    /\ wk' = [wk EXCEPT ![i].y = y + 1]
                    /\ UNCHANGED <<calls, prev, angle, build, libm, running, op, ret, img, tensor, tensor0, target,
                                   overlay, overlay0, outImg, width, height, ov>>
               ELSE Panic
       ELSE WorkerDone(i)

AddOverlayReturn ==
    /\ running = "AddOverlay"
    /\ WaitDone
    /\ running' = "none"
    /\ ret' = "tensor"
    /\ UNCHANGED <<calls, prev, angle, build, libm, op, img, tensor, tensor0, target, overlay, overlay0,
                   newTensor, outImg, width, height, ov, wk, writers>>

\* ------------------------------------------ UpSideDown, GrayScale and Rotate
\* These run on the caller's goroutine alone.  The caller calls one of them on
\* a tensor, and then again on the tensor it has left, up to MaxCalls times.
MaxCalls == 2

\* A channel value as the float64 it is in the tensor.
F64Of(v) == F64Div[v.n, v.d]

\* The tensors handed to UpSideDown, GrayScale and Rotate.
OpTensors ==
    {[y \in DOMAIN t |-> [x \in DOMAIN t[y] |-> [c \in Chan |-> F64Of(t[y][x][c])]]] :
        t \in SrcTensors}

\* The first call of f, on tensor t with angle a in a program built as b and
\* linked with the cosine of m: everything but its effect on *tensor.
FirstCall(f, t, a, b, m) ==
    /\ CanCall
    /\ build' = b
    /\ libm' = m
    /\ op' = f
    /\ running' = "none"
    /\ ret' = "void"
    /\ tensor0' = t
    /\ prev' = t
    /\ calls' = 1
    /\ angle' = a
    /\ width' = Width(t)
    /\ height' = Height(t)
    /\ img' = NoImage
    /\ outImg' = NoImage
    /\ target' = EmptyTensor
    /\ overlay' = EmptyTensor
    /\ overlay0' = EmptyTensor
    /\ newTensor' = EmptyTensor
    /\ ov' = NoOv
    /\ wk' = Idle
    /\ writers' = {}

\* A further call of f on the tensor the last call left.
NextCall(f) ==
    /\ running = "none"
    /\ op = f
    /\ ret = "void"
    /\ calls < MaxCalls
    /\ prev' = tensor
    /\ calls' = calls + 1
    /\ UNCHANGED <<running, op, ret, img, tensor0, target, overlay, overlay0,
                   newTensor, outImg, width, height, ov, wk, writers, angle,
                   build, libm>>

\* UpSideDownRows with the loop running over every row.
RECURSIVE UpSideDownAllRows(_, _)
UpSideDownAllRows(t, y) ==
    IF y >= Height(t) THEN t
    ELSE UpSideDownAllRows(
             [t EXCEPT ![y] = [x \in 0..(Width(t) - 1) |-> t[Height(t) - 1 - y][x]],
                       ![Height(t) - 1 - y] = [x \in 0..(Width(t) - 1) |-> t[y][x]]],
             y + 1)

\* The loop of UpSideDown from row y on: tr[x], br[x] = br[x], tr[x] for the
\* rows y and height-1-y, while y < height/2.
RECURSIVE UpSideDownRows(_, _)
UpSideDownRows(t, y) ==
    IF y >= Height(t) \div 2 THEN t
    ELSE UpSideDownRows(
             [t EXCEPT ![y] = [x \in 0..(Width(t) - 1) |-> t[Height(t) - 1 - y][x]],
                       ![Height(t) - 1 - y] = [x \in 0..(Width(t) - 1) |-> t[y][x]]],
             y + 1)

CallUpSideDown(t) ==
    /\ FirstCall("UpSideDown", t, 0, "separate", "go")
    /\ tensor' = UpSideDownRows(t, 0)

UpSideDownAgain ==
    /\ NextCall("UpSideDown")
    /\ tensor' = UpSideDownRows(tensor, 0)

\* The ways the compiled program may round a*b + c*d: both products and the
\* sum rounded separately, or the left or the right product fused into the sum.
Builds == {"separate", "fusedLeft", "fusedRight"}

\* The float64 constants 0.2126, 0.7152 and 0.0722.
WeightR == [top |-> 1, l |-> <<5740, 7811, 7300, 5820>>, e |-> -3]
WeightG == [top |-> 1, l |-> <<3525, 6855, 537, 3237>>, e |-> -1]
WeightB == [top |-> 1, l |-> <<1271, 3263, 5675, 3421>>, e |-> -4]

\* gray := 0.2126*r + 0.7152*g + 0.0722*b in a program built as b.
Gray(r, g, b, bld) ==
    CASE bld = "separate" ->
             F64Add[F64Add[F64Mul[WeightR, r], F64Mul[WeightG, g]], F64Mul[WeightB, b]]
      [] bld = "fusedLeft" ->
             F64Fma[WeightB, b, F64Fma[WeightR, r, F64Mul[WeightG, g]]]
      [] bld = "fusedRight" ->
             F64Fma[WeightB, b, F64Fma[WeightG, g, F64Mul[WeightR, r]]]

\* The body of GrayScale's loops for one pixel: R, G and B become gray.
GrayPixel(px, bld) ==
    [c \in Chan |-> IF c < 3 THEN Gray(px[0], px[1], px[2], bld) ELSE px[c]]

CallGrayScale(t, b) ==
    /\ FirstCall("GrayScale", t, 0, b, "go")
    /\ tensor' = [y \in DOMAIN t |-> [x \in DOMAIN t[y] |-> GrayPixel(t[y][x], b)]]

GrayScaleAgain ==
    /\ NextCall("GrayScale")
    /\ tensor' = [y \in DOMAIN tensor |->
                     [x \in DOMAIN tensor[y] |-> GrayPixel(tensor[y][x], build)]]

\* The angles Rotate is called with, in degrees.
Angles == {0, 90}

\* The implementations of math.Cos: the portable Go code and a C library.
\* They differ in the last bits of the cosine of the double nearest pi/2.
Libms == {"go", "c"}

F64One == F64Div[1, 1]

\* math.Cos(angle * math.Pi / 180): 1 at 0 degrees; at 90 degrees the radians
\* are the double nearest pi/2 and the cosine is about 6.1232e-17.
Cos(a, m) ==
    CASE a = 0 -> DyOf[F64One, FALSE]
      [] a = 90 /\ m = "go" ->
             DyOf[[top |-> 1, l |-> <<844, 2444, 6306, 7168>>, e |-> -54], FALSE]
      [] a = 90 /\ m = "c" ->
             DyOf[[top |-> 1, l |-> <<844, 2444, 6306, 7175>>, e |-> -54], FALSE]

\* math.Sin(angle * math.Pi / 180): 0 at 0 degrees, 1 at 90 degrees.
Sin(a) == IF a = 0 THEN DyZero ELSE DyOf[F64One, FALSE]

\* float64(n)/2.0: centerX from the width, centerY from the height.
Center(n) == DyOf[F64Div[n, 2], FALSE]

\* float64(k) - center: rotateX from x, rotateY from y.
RotateOffset(k, n) == DyRound[DyAdd[DyOf[F64Div[k, 1], FALSE], DyNeg[Center(n)]]]

\* p*c + q*s as the build rounds it.
MulAdd(p, c, q, s, bld) ==
    CASE bld = "separate" -> DyRound[DyAdd[DyRound[DyMul[p, c]], DyRound[DyMul[q, s]]]]
      [] bld = "fusedLeft" -> DyRound[DyAdd[DyMul[p, c], DyRound[DyMul[q, s]]]]
      [] bld = "fusedRight" -> DyRound[DyAdd[DyRound[DyMul[p, c]], DyMul[q, s]]]

\* Original with the centre not added back.
OriginalNoCenter(p, c, q, s, center, bld) == MulAdd(p, c, q, s, bld)

\* p*c + q*s + center: originalX and originalY.
Original(p, c, q, s, center, bld) == DyRound[DyAdd[MulAdd(p, c, q, s, bld), center]]

\* originalX of the destination pixel (x, y) of a w by h tensor.
OriginalX(x, y, w, h, a, bld, m) ==
    Original(RotateOffset(x, w), Cos(a, m), RotateOffset(y, h), Sin(a), Center(w), bld)

\* originalY of the destination pixel (x, y) of a w by h tensor.
OriginalY(x, y, w, h, a, bld, m) ==
    Original(DyNeg[RotateOffset(x, w)], Sin(a), RotateOffset(y, h), Cos(a, m), Center(h), bld)

\* v >= 0 && v < float64(n)
InRange(v, n) == (~v.neg \/ v.m = << >>) /\ F64Less[DyAbs[v], F64Div[n, 1]]

\* The test of line 575: the source coordinate of (x, y) is within bounds.
WithinBounds(x, y, w, h, a, bld, m) ==
    /\ InRange(OriginalX(x, y, w, h, a, bld, m), w)
    /\ InRange(OriginalY(x, y, w, h, a, bld, m), h)

\* v - math.Floor(v) for v >= 0: dx and dy.
FloorFrac(v) == F64Sub[DyAbs[v], F64Div[F64Trunc[DyAbs[v]], 1]]

\* w1*p + w2*p + w3*p + w4*p as the build rounds it.
WeightedSum(w1, w2, w3, w4, p, bld) ==
    CASE bld = "separate" ->
             F64Add[F64Add[F64Add[F64Mul[w1, p], F64Mul[w2, p]], F64Mul[w3, p]], F64Mul[w4, p]]
      [] bld = "fusedLeft" ->
             F64Fma[w4, p, F64Fma[w3, p, F64Fma[w1, p, F64Mul[w2, p]]]]
      [] bld = "fusedRight" ->
             F64Fma[w4, p, F64Fma[w3, p, F64Fma[w2, p, F64Mul[w1, p]]]]

\* The interpolation of lines 576 to 585: x2, y2 are x1, y1, so that all four
\* source pixels are t[y1][x1].
InterpolateRotated(t, ox, oy, bld) ==
    LET x1 == F64Trunc[DyAbs[ox]]
        y1 == F64Trunc[DyAbs[oy]]
        dx == FloorFrac(ox)
        dy == FloorFrac(oy)
    IN [c \in Chan |->
           WeightedSum(F64Mul[F64Sub[F64One, dx], F64Sub[F64One, dy]],
                       F64Mul[dx, F64Sub[F64One, dy]],
                       F64Mul[F64Sub[F64One, dx], dy],
                       F64Mul[dx, dy], t[y1][x1][c], bld)]

\* A pixel of tempTensor the loop does not write, with the pixel's old value kept.
NotWrittenKeep(px) == px

\* A pixel of tempTensor the loop does not write: as make() left it.
NotWritten(px) == [c \in Chan |-> F64Zero]

\* Rotate's result: tempTensor after the loops, which is copied to *tensor.
RotateTensor(t, a, bld, m) ==
    [y \in DOMAIN t |->
        [x \in DOMAIN t[y] |->
            IF WithinBounds(x, y, Width(t), Height(t), a, bld, m)
            THEN InterpolateRotated(t, OriginalX(x, y, Width(t), Height(t), a, bld, m),
                                    OriginalY(x, y, Width(t), Height(t), a, bld, m), bld)
            ELSE NotWritten(t[y][x])]]

CallRotate(t, a, b, m) ==
    /\ FirstCall("Rotate", t, a, b, m)
    /\ tensor' = RotateTensor(t, a, b, m)

RotateAgain ==
    /\ NextCall("Rotate")
    /\ tensor' = RotateTensor(tensor, angle, build, libm)

\* The caller's choice of a call and of its arguments.
Call ==
    /\ CanCall
    /\ \/ \E im \in Images : CallImageToTensor(im)
       \/ \E t \in SrcTensors, w \in 0..MaxNewW, h \in 0..MaxNewH : CallResize(t, w, h)
       \/ \E tgt \in Targets, ovl \in Overlays : CallAddOverlay(tgt, ovl)
       \/ \E t \in OpTensors : CallUpSideDown(t)
       \/ \E t \in OpTensors, b \in Builds : CallGrayScale(t, b)
       \/ \E t \in OpTensors, a \in Angles, b \in Builds, m \in Libms : CallRotate(t, a, b, m)

\* The caller calls the same function again on the tensor it has.
Again ==
    \/ UpSideDownAgain
    \/ GrayScaleAgain
    \/ RotateAgain

\* A step of one of the goroutines of the running function.
Worker(i) ==
    \/ ImageToTensorWorker(i)
    \/ TensorToImageWorker(i)
    \/ ResizeWorker(i)
    \/ AddOverlayWorker(i)

\* A wg.Wait() that returns.
Join ==
    \/ ImageToTensorReturn
    \/ TensorToImageReturn
    \/ ResizeReturn
    \/ AddOverlayResized
    \/ AddOverlayReturn

Next ==
    \/ Call
    \/ CallTensorToImage
    \/ Again
    \/ \E i \in Workers : Worker(i)
    \/ Join

Spec == Init /\ [][Next]_vars

\* A step of the running call: of one of its goroutines, or of its wg.Wait().
Step == (\E i \in Workers : Worker(i)) \/ Join

\* The caller's choices with one colouring for each shape of argument: which
\* goroutine runs when, and whether a call returns, does not depend on the
\* channel values.
FairCall ==
    /\ CanCall
    /\ \/ \E w \in 1..MaxImgW, h \in 1..MaxImgH :
              CallImageToTensor(MkImage(w, h, "deep"))
       \/ \E ow \in 1..MaxDim, oh \in 1..MaxDim, w \in 0..MaxNewW, h \in 0..MaxNewH :
              CallResize(MkTensor(ow, oh, "grad"), w, h)
       \/ \E tgt \in {t \in Targets : t \in {EmptyTensor, MkTensor(Width(t), Height(t), "white")}},
             ovl \in {t \in Overlays : t \in {EmptyTensor, MkTensor(Width(t), Height(t), "grad")}} :
              CallAddOverlay(tgt, ovl)

FairNext == FairCall \/ CallTensorToImage \/ Step

\* The Go scheduler: while some goroutine of the call can run, one is run.
FairSpec == Init /\ [][FairNext]_vars /\ WF_vars(Step)

\* ------------------------------------------------------------------- claims
\* The call of f has returned its result to the caller.
Returned(f) == op = f /\ running = "none" /\ ret \in {"tensor", "image", "void"}

\* The cells the loops of goroutine i of function f range over.
CellsOf(f, i) ==
    IF f \in {"ImageToTensor", "TensorToImage"}
    THEN {<<y, x>> : y \in 0..(height - 1), x \in wk[i].start..(wk[i].end - 1)}
    ELSE IF f = "Resize"
    THEN {<<y, x>> : y \in wk[i].start..(wk[i].end - 1), x \in 0..(width - 1)}
    ELSE {<<y, x>> : y \in wk[i].start..(wk[i].end - 1),
                     x \in ov.offsetX..(ov.offsetX + ov.newOverlayWidth - 1)}

\* C1: when ImageToTensor or TensorToImage returns, the goroutines' column
\* ranges cover every column of [0, width) and every pixel has been converted.
C1_FullColumnCoverage ==
    (Returned("ImageToTensor") \/ Returned("TensorToImage")) =>
        \A x \in 0..(width - 1) :
            /\ \E i \in Workers : wk[i].start <= x /\ x < wk[i].end
            /\ \A y \in 0..(height - 1) : \E i \in Workers : <<i, y, x>> \in writers

\* C2: in every state of every function's parallel phase no cell has been
\* written by two goroutines, and the ranges handed to the goroutines are
\* pairwise disjoint.
C2_DisjointWrites ==
    /\ \A a \in writers : \A b \in writers :
           (a[2] = b[2] /\ a[3] = b[3]) => a[1] = b[1]
    /\ \A i \in Workers : \A j \in Workers :
           i # j => (wk[i].end <= wk[j].start \/ wk[j].end <= wk[i].start)

\* C2's case: AddOverlay's blending goroutines have all written their rows.
C2_Witness ==
    /\ running = "AddOverlay"
    /\ WaitDone
    /\ \A i \in Workers : \E a \in writers : a[1] = i

\* C3: a wg.Wait() returns (the function returns, or AddOverlay goes on after
\* its Resize) only when every goroutine has written every cell of its range,
\* and every call that has started returns.
C3_JoinBeforeReturn ==
    /\ [][(running # "none" /\ running' # running /\ ret' # "panic") =>
            \A i \in Workers : \A c \in CellsOf(running, i) :
                <<i, c[1], c[2]>> \in writers]_vars
    /\ (op # "none" /\ ret = "none") ~> (ret # "none")

\* C3's case: AddOverlay has returned a tensor its goroutines blended into.
C3_Witness == Returned("AddOverlay") /\ writers # {}

\* C4: after ImageToTensor and TensorToImage, every 16-bit channel value read
\* from the resulting image is within 1 of the original image's.
C4_RoundTrip ==
    Returned("TensorToImage") =>
        \A y \in 0..(img.h - 1) : \A x \in 0..(img.w - 1) : \A c \in Chan :
            /\ At16(outImg, x, y)[c] - img.px[y][x][c] <= 1
            /\ img.px[y][x][c] - At16(outImg, x, y)[c] <= 1

\* C5: Resize to the tensor's own width and height leaves every pixel (x, y)
\* with x < w-1 and y < h-1 as it was.
C5_ResizeIdentity ==
    (Returned("Resize") /\ width = Width(tensor0) /\ height = Height(tensor0)) =>
        \A y \in 0..(height - 2) : \A x \in 0..(width - 2) :
            tensor[y][x] = tensor0[y][x]

\* C6: Resize of a tensor whose pixels all have one colour gives a tensor
\* whose pixels all have that colour (so 4x4 red to 2x2 gives 2x2 red).
C6_ResizeUniform ==
    (/\ Returned("Resize")
     /\ \A y \in DOMAIN tensor0 : \A x \in DOMAIN tensor0[y] :
            tensor0[y][x] = tensor0[0][0]) =>
        \A y \in DOMAIN tensor : \A x \in DOMAIN tensor[y] :
            tensor[y][x] = tensor0[0][0]

\* C7: when AddOverlay returns, every pixel of the placed rectangle is the
\* blend of the resized overlay's pixel onto the target's, with alpha 1.0.
C7_BlendInsideRectangle ==
    Returned("AddOverlay") =>
        \A y \in ov.offsetY..(ov.offsetY + ov.newOverlayHeight - 1) :
            \A x \in ov.offsetX..(ov.offsetX + ov.newOverlayWidth - 1) :
                newTensor[y][x] =
                    BlendPixel(overlay[y - ov.offsetY][x - ov.offsetX], target[y][x])

\* C8: a 2x2 opaque blue overlay on a 4x4 opaque white target gives blue with
\* alpha 1 in rows 1..2 of columns 1..2 and white in the 12 border pixels.
C8_BlueOnWhite ==
    (/\ Returned("AddOverlay")
     /\ target = MkTensor(4, 4, "white")
     /\ overlay0 = MkTensor(2, 2, "blue")) =>
        /\ Height(newTensor) = 4
        /\ \A y \in 0..3 : \A x \in 0..3 :
               newTensor[y][x] = IF x \in 1..2 /\ y \in 1..2 THEN Blue ELSE White

\* C9: AddOverlay with a target or an overlay of zero rows returns the error
\* and no tensor, with no output allocated, no goroutine started and the
\* overlay as it was passed.
C9_EmptyInputError ==
    (op = "AddOverlay" /\ (Height(target) = 0 \/ Height(overlay0) = 0)) =>
        /\ ret = "error"
        /\ running = "none"
        /\ newTensor = EmptyTensor
        /\ overlay = overlay0
        /\ wk = Idle
        /\ writers = {}

\* C9's case: a target with rows and an overlay with none got the error.
C9_Witness ==
    op = "AddOverlay" /\ ret = "error" /\ Height(target) > 0 /\ Height(overlay0) = 0

\* C10: for non-empty inputs the factor is 1.0 and the overlay keeps its size
\* when it fits the target; otherwise the scaled size fits the target; and the
\* scaled size never exceeds the overlay's own.
C10_NonEnlargement ==
    (op = "AddOverlay" /\ ret \notin {"error", "panic"}) =>
        LET W == Width(target)
            H == Height(target)
            w == Width(overlay0)
            h == Height(overlay0)
        IN /\ (w <= W /\ h <= H) =>
                  /\ ov.num = ov.den
                  /\ ov.newOverlayWidth = w
                  /\ ov.newOverlayHeight = h
           /\ (w > W \/ h > H) =>
                  /\ ov.newOverlayWidth <= W
                  /\ ov.newOverlayHeight <= H
           /\ ov.newOverlayWidth <= w
           /\ ov.newOverlayHeight <= h

\* C10's case: an overlay wider or higher than the target was shrunk.
C10_Witness ==
    /\ Returned("AddOverlay")
    /\ (Width(overlay0) > Width(target) \/ Height(overlay0) > Height(target))
    /\ ov.newOverlayWidth < Width(overlay0)
    /\ ov.newOverlayWidth >= 1

\* The rectangle the resized overlay is placed on: centred in the target.
InPlacedRectangle(x, y) ==
    LET left == (Width(target) - ov.newOverlayWidth) \div 2
        top == (Height(target) - ov.newOverlayHeight) \div 2
    IN /\ left <= x /\ x < left + ov.newOverlayWidth
       /\ top <= y /\ y < top + ov.newOverlayHeight

\* C11: the tensor AddOverlay returns has the target's H rows of W pixels, and
\* every pixel outside the placed rectangle equals the target's pixel there.
C11_OutputSizeAndFrame ==
    Returned("AddOverlay") =>
        /\ DOMAIN newTensor = DOMAIN target
        /\ \A y \in DOMAIN target :
               /\ DOMAIN newTensor[y] = DOMAIN target[y]
               /\ \A x \in DOMAIN target[y] :
                      ~InPlacedRectangle(x, y) => newTensor[y][x] = target[y][x]

\* C11's case: an overlay narrower than the target was blended into it, with
\* coloured target pixels left outside the rectangle.
C11_Witness ==
    /\ Returned("AddOverlay")
    /\ writers # {}
    /\ \E y \in DOMAIN target : \E x \in DOMAIN target[y] :
           ~InPlacedRectangle(x, y) /\ target[y][x] # ZeroPixel

\* C12: a call of UpSideDown puts the row that was at y at height-1-y and
\* leaves the middle row of an odd-height tensor as it was; after every second
\* call the tensor is the original one.
C12_FlipInvolution ==
    op = "UpSideDown" =>
        /\ DOMAIN tensor = DOMAIN prev
        /\ \A y \in DOMAIN prev : tensor[Height(prev) - 1 - y] = prev[y]
        /\ Height(prev) % 2 = 1 => tensor[Height(prev) \div 2] = prev[Height(prev) \div 2]
        /\ calls % 2 = 0 => tensor = tensor0

\* C12's case: a second UpSideDown of a tensor of odd height that the first
\* one had changed.
C12_Witness ==
    /\ op = "UpSideDown"
    /\ calls = 2
    /\ Height(tensor0) % 2 = 1
    /\ prev # tensor0

\* C13: after a call of GrayScale, R = G = B = 0.2126*R0 + 0.7152*G0 + 0.0722*B0
\* at every pixel and alpha is as it was; a second call leaves the tensor the
\* first call gave.
C13_GrayIdempotent ==
    op = "GrayScale" =>
        /\ \A y \in DOMAIN prev : \A x \in DOMAIN prev[y] :
               /\ tensor[y][x][0] = Gray(prev[y][x][0], prev[y][x][1], prev[y][x][2], build)
               /\ tensor[y][x][1] = tensor[y][x][0]
               /\ tensor[y][x][2] = tensor[y][x][0]
               /\ tensor[y][x][3] = prev[y][x][3]
        /\ calls >= 2 => tensor = prev

\* C14: Rotate with the angle 0.0 leaves every pixel as it was before the call.
C14_RotateIdentity == (op = "Rotate" /\ angle = 0) => tensor = prev

\* C14 witness: a tensor of more than one row and column, with pixels that are
\* not zero, has been rotated by 0.0 twice by a program with fused arithmetic.
C14_Witness ==
    /\ op = "Rotate" /\ angle = 0 /\ calls = 2 /\ build # "separate"
    /\ width > 1 /\ height > 1
    /\ tensor[1][1] # [c \in Chan |-> F64Zero]

\* The destination pixel (x, y) of the latest call of Rotate has a source
\* coordinate out of bounds.
OutOfBounds(x, y) == ~WithinBounds(x, y, width, height, angle, build, libm)

\* C15 as stated: a destination pixel whose source coordinate is out of bounds
\* keeps the value it had before the rotation.
C15_OutOfBoundsKept ==
    op = "Rotate" =>
        \A y \in DOMAIN prev : \A x \in DOMAIN prev[y] :
            OutOfBounds(x, y) => tensor[y][x] = prev[y][x]

\* C15 amended: a destination pixel whose source coordinate is out of bounds
\* is (0, 0, 0, 0) after the rotation.
C15_OutOfBoundsCleared ==
    op = "Rotate" =>
        \A y \in DOMAIN prev : \A x \in DOMAIN prev[y] :
            OutOfBounds(x, y) => tensor[y][x] = [c \in Chan |-> F64Zero]

\* C15 witness: a quarter turn of a tensor that is not square has left a
\* pixel out of bounds that was not zero before.
C15_Witness ==
    /\ op = "Rotate" /\ angle = 90 /\ width # height
    /\ \E y \in DOMAIN prev : \E x \in DOMAIN prev[y] :
           OutOfBounds(x, y) /\ prev[y][x] # [c \in Chan |-> F64Zero]

\* Every channel value of the tensor t of rationals is in [0, 1].
InUnit(t) ==
    \A y \in DOMAIN t : \A x \in DOMAIN t[y] : \A c \in Chan :
        0 <= t[y][x][c].n /\ t[y][x][c].n <= t[y][x][c].d

\* Every channel value of the tensor t of doubles, none of them negative, is
\* in [0, 1].
InUnitF64(t) ==
    \A y \in DOMAIN t : \A x \in DOMAIN t[y] : \A c \in Chan : ~F64Less[F64One, t[y][x][c]]

\* C16: when every channel value of the inputs is in [0, 1], every channel
\* value of the tensor AddOverlay returns is in [0, 1], and so is every value
\* of the tensor Resize, GrayScale, UpSideDown and Rotate leave.
C16_RangeInvariant ==
    /\ (Returned("AddOverlay") /\ InUnit(target) /\ InUnit(overlay0)) => InUnit(newTensor)
    /\ (Returned("Resize") /\ InUnit(tensor0)) => InUnit(tensor)
    /\ (op \in {"GrayScale", "UpSideDown", "Rotate"} /\ InUnitF64(tensor0)) => InUnitF64(tensor)

\* C17: after Resize, with x0 = floor(x*oldWidth/newWidth) and
\* y0 = floor(y*oldHeight/newHeight), the destination pixel (x, y) is
\* (0, 0, 0, 0) when x0 >= oldWidth-1 or y0 >= oldHeight-1, and otherwise each
\* of its channels is the bilinear blend of the four source pixels around
\* (x0, y0).
C17_ResizeBoundaryPolicy ==
    Returned("Resize") =>
        \A y \in DOMAIN tensor : \A x \in DOMAIN tensor[y] :
            LET oldWidth == Width(tensor0)
                oldHeight == Height(tensor0)
                x0 == (x * oldWidth) \div width
                y0 == (y * oldHeight) \div height
            IN IF x0 >= oldWidth - 1 \/ y0 >= oldHeight - 1
               THEN tensor[y][x] = ZeroPixel
               ELSE tensor[y][x] =
                        [c \in Chan |->
                            Bilinear(Rat[x * oldWidth - x0 * width, width],
                                     Rat[y * oldHeight - y0 * height, height],
                                     tensor0[y0][x0][c], tensor0[y0][x0 + 1][c],
                                     tensor0[y0 + 1][x0][c], tensor0[y0 + 1][x0 + 1][c])]

\* C18: no step of a call of AddOverlay that goes on to return a tensor
\* changes the dimensions or the values of the target or of the caller's
\* overlay.
C18_InputsUnchanged ==
    [][(op = "AddOverlay" /\ ret = "none") => (target' = target /\ overlay' = overlay)]_vars
====
